---- MODULE Spec2Model ----
(***************************************************************************)
(* A model of the three tutorial notebooks of the repository:              *)
(*   - 3-automatic-differentiation.ipynb (TensorFlow gradient tape),       *)
(*   - 3-data.ipynb (PyTorch datasets, dataloaders, label transform),      *)
(*   - 01-clustering-introduction.ipynb (seeds data, scaling, PCA, WCSS),  *)
(* and of the reading of its two module metadata files (YAML).             *)
(* Each notebook is a sequence of cells run top to bottom; a cell is a     *)
(* sequence of statements.  The notebooks share no state, so each has its  *)
(* own specification over its own variables; the variables of the other   *)
(* notebooks stay at their initial values.                                 *)
(* Library calls are modelled by what the called routine computes on the   *)
(* arguments the cell passes.  Floating-point tensors hold small integers  *)
(* here (exactly representable in float32).                                *)
(***************************************************************************)
EXTENDS Integers, Sequences, FiniteSets, TLC

VARIABLES
  ad_pc,      \* autodiff notebook: <<cell, statement>> about to run
  ad_in,      \* the literals written in the two cells: [U |-> 1x2, V |-> 2x2]
  ad_env,     \* Python names U, V, W, f -> tensor
  ad_tape,    \* the GradientTape object created by each cell
  ad_out      \* what each cell has printed so far

adVars == <<ad_pc, ad_in, ad_env, ad_tape, ad_out>>

VARIABLES
  dt_pc,        \* the statement about to run ("off": the notebook is not run)
  dt_fs,        \* whether the FashionMNIST files are present under root="data"
  dt_download,  \* what the last FashionMNIST(download=True) call did
  dt_data,      \* training_data, test_data, ds
  dt_loop,      \* the sample-visualization loop: i, sample_idx, label, subplots
  dt_loaders,   \* train_dataloader, test_dataloader
  dt_it,        \* the iterator of the pass in progress
  dt_batch,     \* the batch last returned (train_features, train_labels)
  dt_passes,    \* passes iterated to their end
  dt_tt,        \* target_transform
  dt_onehot     \* the last label transformed and its two transforms

dtVars == <<dt_pc, dt_fs, dt_download, dt_data, dt_loop, dt_loaders, dt_it,
            dt_batch, dt_passes, dt_tt, dt_onehot>>

VARIABLES
  cl_pc,        \* the statement about to run ("off": the notebook is not run)
  cl_run,       \* how many times the notebook was started in this directory
  cl_fs,        \* the working directory: seeds.csv and its numbered copies
  cl_wget,      \* what the last !wget did
  cl_data,      \* data
  cl_features,  \* features
  cl_scaled,    \* scaled_features
  cl_2d,        \* features_2d
  cl_loop,      \* the cluster-count loop: iterations done and i
  cl_kmeans,    \* kmeans
  cl_wcss,      \* wcss
  cl_plot       \* the x and y values handed to plt.plot

clVars == <<cl_pc, cl_run, cl_fs, cl_wget, cl_data, cl_features, cl_scaled, cl_2d,
            cl_loop, cl_kmeans, cl_wcss, cl_plot>>

VARIABLES
  ym_pc,        \* reading a module file ("off": no file is read)
  ym_file,      \* the module file that is read (0: none yet)
  ym_uid,       \* the module's uid
  ym_units,     \* the entries of units read so far
  ym_line       \* how many lines of the units list were read

ymVars == <<ym_pc, ym_file, ym_uid, ym_units, ym_line>>

vars == <<adVars, dtVars, clVars, ymVars>>

(***************************************************************************)
(* Generic helpers on sequences and matrices (a matrix is a sequence of    *)
(* rows, every row a sequence of numbers).                                 *)
(***************************************************************************)
RECURSIVE SumSeq(_)
SumSeq(s) == IF s = <<>> THEN 0 ELSE Head(s) + SumSeq(Tail(s))

Rows(A) == Len(A)
Cols(A) == IF A = <<>> THEN 0 ELSE Len(A[1])

Transpose(A) == [j \in 1..Cols(A) |-> [i \in 1..Rows(A) |-> A[i][j]]]

MatAdd(A, B) == [i \in 1..Rows(A) |-> [j \in 1..Cols(A) |-> A[i][j] + B[i][j]]]

Fill(r, c, x) == [i \in 1..r |-> [j \in 1..c |-> x]]

(***************************************************************************)
(* Bounds of the autodiff inputs.  The notebook writes U = [[1, 2]] and    *)
(* V = [[3, 4], [5, 6]]; the model also runs every U and V with entries    *)
(* in 0..MaxVal.                                                           *)
(***************************************************************************)
MaxVal == 2

NotebookU == <<<<1, 2>>>>
NotebookV == <<<<3, 4>>, <<5, 6>>>>

InputU == {NotebookU} \cup {<<<<a, b>>>> : a \in 0..MaxVal, b \in 0..MaxVal}
InputV == {NotebookV} \cup
          {<<<<a, b>>, <<c, d>>>> : a \in 0..MaxVal, b \in 0..MaxVal,
                                    c \in 0..MaxVal, d \in 0..MaxVal}

(***************************************************************************)
(* Tensors and the two recorded operations.                                *)
(***************************************************************************)
Undefined == [kind |-> "undefined", val |-> <<>>]

\* tf.constant(value)
TfConstant(value) == [kind |-> "constant", val |-> value]

\* tf.Variable(tf.constant(value)): a trainable variable holding the value
TfVariable(value) == [kind |-> "variable", val |-> value]

\* tf.matmul(a, b): c[i][j] = sum_k a[i][k] * b[k][j]
MatMul(A, B) ==
  [i \in 1..Rows(A) |->
     [j \in 1..Cols(B) |-> SumSeq([k \in 1..Cols(A) |-> A[i][k] * B[k][j]])]]

\* tf.math.reduce_sum(w): the sum of all entries, a scalar (kept as 1x1)
ReduceSum(A) == <<<<SumSeq([i \in 1..Rows(A) |-> SumSeq(A[i])])>>>>

Names == {"U", "V", "W", "f"}

NoGrad == [none |-> TRUE, val |-> <<>>]
SomeGrad(g) == [none |-> FALSE, val |-> g]

(***************************************************************************)
(* tf.GradientTape.  The tape keeps the set of watched tensors and the     *)
(* operations recorded while it is active.  An operation is recorded when  *)
(* one of its inputs is watched; its output is then watched too.  A        *)
(* trainable variable read by an operation is watched automatically when   *)
(* the tape has watch_accessed_variables (the default).                    *)
(***************************************************************************)
GradientTape(persistent) ==
  [persistent |-> persistent, watch_accessed_variables |-> TRUE,
   watched |-> {}, ops |-> <<>>, recording |-> TRUE, released |-> FALSE]

NoTape ==
  [persistent |-> FALSE, watch_accessed_variables |-> TRUE,
   watched |-> {}, ops |-> <<>>, recording |-> FALSE, released |-> FALSE]

\* tape.watch(tensor)
TapeWatch(tape, name) == [tape EXCEPT !.watched = @ \cup {name}]

\* The variables among an operation's inputs that the tape starts watching.
VariablesNoAutoWatch(tape, env, ins) == {}

AccessedVariables(tape, env, ins) ==
  {n \in {ins[i] : i \in 1..Len(ins)} :
     env[n].kind = "variable" /\ tape.watch_accessed_variables}

\* What the tape does when the operation op(ins) = out runs inside it.
TapeRecord(tape, env, op, ins, out) ==
  IF ~tape.recording THEN tape
  ELSE LET w == tape.watched \cup AccessedVariables(tape, env, ins)
       IN  IF \E i \in 1..Len(ins) : ins[i] \in w
           THEN [tape EXCEPT
                   !.watched = w \cup {out},
                   !.ops = Append(@, [op |-> op, ins |-> ins, out |-> out,
                                      saved |-> [i \in 1..Len(ins) |-> env[ins[i]].val]])]
           ELSE [tape EXCEPT !.watched = w]

\* The gradient of MatMul(A, B) given the gradient G of its output:
\* dA = G . B^T and dB = A^T . G.
MatMulGradNoTranspose(A, B, G) == <<MatMul(G, B), MatMul(Transpose(A), G)>>

MatMulGrad(A, B, G) == <<MatMul(G, Transpose(B)), MatMul(Transpose(A), G)>>

\* The gradient of reduce_sum(A) given the (scalar) gradient G of its output:
\* G broadcast to the shape of A.
ReduceSumGrad(A, G) == <<Fill(Rows(A), Cols(A), G[1][1])>>

OpGrad(o, G) ==
  IF o.op = "MatMul" THEN MatMulGrad(o.saved[1], o.saved[2], G)
  ELSE ReduceSumGrad(o.saved[1], G)

Accumulate(grads, name, g) ==
  [grads EXCEPT ![name] = IF @.none THEN SomeGrad(g) ELSE SomeGrad(MatAdd(@.val, g))]

RECURSIVE AccumulateAll(_, _, _, _)
AccumulateAll(grads, ins, gs, i) ==
  IF i > Len(ins) THEN grads
  ELSE AccumulateAll(Accumulate(grads, ins[i], gs[i]), ins, gs, i + 1)

\* Reverse pass over the recorded operations ops[1..k].
RECURSIVE Backprop(_, _, _)
Backprop(ops, k, grads) ==
  IF k = 0 THEN grads
  ELSE LET o == ops[k]
       IN  IF grads[o.out].none THEN Backprop(ops, k - 1, grads)
           ELSE Backprop(ops, k - 1,
                         AccumulateAll(grads, o.ins, OpGrad(o, grads[o.out].val), 1))

\* tape.gradient(target, source) for a scalar target: None when the source
\* is not watched or the target was not recorded.
TapeGradient(tape, target, source) ==
  IF source \notin tape.watched \/ target \notin tape.watched THEN NoGrad
  ELSE Backprop(tape.ops, Len(tape.ops),
                [[n \in Names |-> NoGrad] EXCEPT ![target] = SomeGrad(<<<<1>>>>)])[source]

(***************************************************************************)
(* The autodiff notebook.  Cell "c2" defines U and V as constants and      *)
(* watches them; cell "c4" defines them as variables and does not.  Both   *)
(* cells then run the same statements.                                     *)
(***************************************************************************)
AdCells == <<"c2", "c4">>

\* The statements of a cell, in order.
AdStatements(c) ==
  IF c = "c2"
  THEN <<"define", "tape", "watchU", "watchV", "matmul", "reduce_sum", "exit",
         "printU", "printV">>
  ELSE <<"define", "tape", "matmul", "reduce_sum", "exit", "printU", "printV">>

AdIndexOf(seq, x) == CHOOSE i \in 1..Len(seq) : seq[i] = x

\* The position after statement st of cell c.
AdAfter(c, st) ==
  LET sts == AdStatements(c)
      i == AdIndexOf(sts, st)
  IN  IF i < Len(sts) THEN <<c, sts[i + 1]>>
      ELSE IF c = "c2" THEN <<"c4", "define">>
      ELSE <<"end", "done">>

AdAt(c, st) == ad_pc = <<c, st>>

AdInit ==
  /\ ad_pc = <<"c2", "define">>
  /\ ad_in \in [U : InputU, V : InputV]
  /\ ad_env = [n \in Names |-> Undefined]
  /\ ad_tape = [c \in {"c2", "c4"} |-> NoTape]
  /\ ad_out = [c \in {"c2", "c4"} |-> <<>>]

\* U = tf.constant(...); V = tf.constant(...)      (cell c2)
\* U = tf.Variable(tf.constant(...)); V = ...       (cell c4)
AdDefine(c) ==
  /\ AdAt(c, "define")
  /\ ad_env' = [n \in Names |->
                   IF n \in {"U", "V"}
                   THEN IF c = "c2" THEN TfConstant(ad_in[n]) ELSE TfVariable(ad_in[n])
                   ELSE Undefined]
  /\ ad_pc' = AdAfter(c, "define")
  /\ UNCHANGED <<ad_in, ad_tape, ad_out, dtVars, clVars, ymVars>>

\* with tf.GradientTape(persistent=True) as tape:
AdEnterTape(c) ==
  /\ AdAt(c, "tape")
  /\ ad_tape' = [ad_tape EXCEPT ![c] = GradientTape(TRUE)]
  /\ ad_pc' = AdAfter(c, "tape")
  /\ UNCHANGED <<ad_in, ad_env, ad_out, dtVars, clVars, ymVars>>

\* tape.watch(U); tape.watch(V)                    (cell c2 only)
AdWatch(n) ==
  /\ AdAt("c2", "watch" \o n)
  /\ ad_tape' = [ad_tape EXCEPT !["c2"] = TapeWatch(@, n)]
  /\ ad_pc' = AdAfter("c2", "watch" \o n)
  /\ UNCHANGED <<ad_in, ad_env, ad_out, dtVars, clVars, ymVars>>

\* W = tf.matmul(U, V)
AdMatMul(c) ==
  /\ AdAt(c, "matmul")
  /\ ad_env' = [ad_env EXCEPT
                  !["W"] = [kind |-> "result", val |-> MatMul(ad_env["U"].val, ad_env["V"].val)]]
  /\ ad_tape' = [ad_tape EXCEPT ![c] = TapeRecord(@, ad_env, "MatMul", <<"U", "V">>, "W")]
  /\ ad_pc' = AdAfter(c, "matmul")
  /\ UNCHANGED <<ad_in, ad_out, dtVars, clVars, ymVars>>

\* f = tf.math.reduce_sum(W)
AdReduceSum(c) ==
  /\ AdAt(c, "reduce_sum")
  /\ ad_env' = [ad_env EXCEPT
                  !["f"] = [kind |-> "result", val |-> ReduceSum(ad_env["W"].val)]]
  /\ ad_tape' = [ad_tape EXCEPT ![c] = TapeRecord(@, ad_env, "Sum", <<"W">>, "f")]
  /\ ad_pc' = AdAfter(c, "reduce_sum")
  /\ UNCHANGED <<ad_in, ad_out, dtVars, clVars, ymVars>>

\* the end of the with block: the tape stops recording
AdExitTape(c) ==
  /\ AdAt(c, "exit")
  /\ ad_tape' = [ad_tape EXCEPT ![c].recording = FALSE]
  /\ ad_pc' = AdAfter(c, "exit")
  /\ UNCHANGED <<ad_in, ad_env, ad_out, dtVars, clVars, ymVars>>

\* print(tape.gradient(f, U)) and print(tape.gradient(f, V)).  A tape that
\* is not persistent releases its resources at the first gradient call and
\* raises on the second.
AdPrintGradient(c, n) ==
  /\ AdAt(c, "print" \o n)
  /\ IF ad_tape[c].released
     THEN /\ ad_pc' = <<c, "error">>
          /\ UNCHANGED <<ad_tape, ad_out, dtVars, clVars, ymVars>>
     ELSE /\ ad_out' = [ad_out EXCEPT ![c] = Append(@, TapeGradient(ad_tape[c], "f", n))]
          /\ ad_tape' = [ad_tape EXCEPT ![c].released = ~ad_tape[c].persistent]
          /\ ad_pc' = AdAfter(c, "print" \o n)
  /\ UNCHANGED <<ad_in, ad_env, dtVars, clVars, ymVars>>

AdNext ==
  \/ \E c \in {"c2", "c4"} :
        \/ AdDefine(c)
        \/ AdEnterTape(c)
        \/ AdMatMul(c)
        \/ AdReduceSum(c)
        \/ AdExitTape(c)
        \/ \E n \in {"U", "V"} : AdPrintGradient(c, n)
  \/ \E n \in {"U", "V"} : AdWatch(n)


(***************************************************************************)
(* The data notebook (3-data.ipynb).                                       *)
(***************************************************************************)
\* "60,000 training examples and 10,000 test examples", "one of 10 classes"
TrainLen == 60000
TestLen == 10000
NumClasses == 10
Labels == 0..(NumClasses - 1)

\* batch_size=64
BatchSize == 64

\* Bounds: the sample indices torch.randint is seen to draw are 0..MaxProbe
\* and the last index; a sampler order is k |-> (a*k + b) mod n with a in
\* Multipliers (coprime to both dataset lengths) and b in 0..MaxShift; at
\* most MaxPasses passes are iterated to their end.
MaxProbe == 1
MaxShift == 1
MaxPasses == 1
Multipliers == {1, 7}

Min(a, b) == IF a <= b THEN a ELSE b

\* range(a, b) as the sequence a, a+1, ..., b-1
RangeInclusive(a, b) == [j \in 1..(IF b >= a THEN b - a + 1 ELSE 0) |-> a + j - 1]

Range(a, b) == [j \in 1..(IF b > a THEN b - a ELSE 0) |-> a + j - 1]

(***************************************************************************)
(* datasets.FashionMNIST(root="data", train=..., download=True, ...)       *)
(***************************************************************************)
Unbound == [bound |-> FALSE, train |-> FALSE, len |-> 0, target_transform |-> "none"]

FashionMNIST(train, target_transform) ==
  [bound |-> TRUE, train |-> train, len |-> IF train THEN TrainLen ELSE TestLen,
   target_transform |-> target_transform]

\* The outcomes of the constructor with download=True: files already under
\* root are used as they are; otherwise they are fetched, and a fetch that
\* fails raises out of the constructor.
DownloadOutcomes(present) == IF present THEN {"skipped"} ELSE {"ok", "failed"}

(***************************************************************************)
(* The label transform: torch.zeros(10).scatter_(dim, index, value).       *)
(***************************************************************************)
\* torch.zeros(n, dtype=torch.float)
Zeros(n) == [i \in 1..n |-> 0]

\* torch.tensor(y) for an integer y: a tensor holding the one element y
Tensor0(y) == <<y>>

\* Tensor.scatter_(dim, index, value) on a one-dimensional tensor: writes
\* value at every (0-based) position that index names.
ScatterOneBased(self, dim, index, value) ==
  [i \in 1..Len(self) |-> IF \E k \in 1..Len(index) : index[k] = i THEN value ELSE self[i]]

Scatter(self, dim, index, value) ==
  [i \in 1..Len(self) |-> IF \E k \in 1..Len(index) : index[k] = i - 1 THEN value ELSE self[i]]

\* The two ways the notebook calls scatter_: positional arguments followed
\* by keyword arguments.
PositionalCall(y) == [args |-> <<0, Tensor0(y)>>, kwargs |-> [value |-> 1]]
KeywordCall(y) == [args |-> <<>>, kwargs |-> [dim |-> 0, index |-> Tensor0(y), value |-> 1]]

\* Python's binding of a call to the parameters (dim, index, value):
\* positional arguments in order, then keywords by name.
BindDim(call) == IF Len(call.args) >= 1 THEN call.args[1] ELSE call.kwargs.dim
BindIndex(call) == IF Len(call.args) >= 2 THEN call.args[2] ELSE call.kwargs.index
BindValue(call) == IF Len(call.args) >= 3 THEN call.args[3] ELSE call.kwargs.value

\* Lambda(lambda y: torch.zeros(10, dtype=torch.float).scatter_(...))(y)
ApplyLambda(form, y) ==
  LET call == IF form = "positional" THEN PositionalCall(y) ELSE KeywordCall(y)
  IN  Scatter(Zeros(NumClasses), BindDim(call), BindIndex(call), BindValue(call))

(***************************************************************************)
(* DataLoader(dataset, batch_size=64, shuffle=True)                        *)
(***************************************************************************)
DataLoader(dataset, batch_size, shuffle) ==
  [bound |-> TRUE, len |-> dataset.len, batch_size |-> batch_size,
   shuffle |-> shuffle, drop_last |-> FALSE]

NoLoader ==
  [bound |-> FALSE, len |-> 0, batch_size |-> 0, shuffle |-> FALSE, drop_last |-> FALSE]

Identity == [a |-> 1, b |-> 0]
Orders == [a : Multipliers, b : 0..MaxShift]

\* The orders the sampler may draw when a pass starts (iter(loader)): with
\* shuffle a fresh random permutation for every pass, otherwise 0, 1, 2, ...
SamplerOrdersDrawnOnce(loader, last) ==
  IF ~loader.shuffle THEN {Identity}
  ELSE IF last.started THEN {last.order} ELSE Orders

SamplerOrders(loader, last) == IF loader.shuffle THEN Orders ELSE {Identity}

\* len(loader): the number of batches of a pass
NumBatches(loader) ==
  IF loader.drop_last THEN loader.len \div loader.batch_size
  ELSE (loader.len + loader.batch_size - 1) \div loader.batch_size

\* The number of samples in batch number b (0-based) of a pass
BatchLenWrapAround(loader, b) == loader.batch_size

BatchLen(loader, b) == Min(loader.batch_size, loader.len - b * loader.batch_size)

\* every batch taken from the start of the order
BatchIndicesFromStart(loader, order, b) ==
  [j \in 1..BatchLen(loader, b) |-> (order.a * (j - 1) + order.b) % loader.len]

\* The sample indices of batch number b (0-based) under the order
BatchIndices(loader, order, b) ==
  [j \in 1..BatchLen(loader, b) |->
     (order.a * (b * loader.batch_size + j - 1) + order.b) % loader.len]

\* The default collate: features and labels of the samples, in batch order
Collate(indices) ==
  [features |-> [j \in 1..Len(indices) |-> [img |-> indices[j]]],
   labels |-> [j \in 1..Len(indices) |-> [target |-> indices[j]]]]

NoBatch == [features |-> <<>>, labels |-> <<>>]

NoIterator ==
  [started |-> FALSE, loader |-> "none", order |-> Identity, served |-> 0,
   exhausted |-> FALSE, prev |-> Identity]

\* cols, rows = 3, 3
VizCols == 3
VizRows == 3

\* labels_map = {0: "T-Shirt", ..., 9: "Ankle Boot"}
LabelsMap ==
  [y \in 0..9 |->
     <<"T-Shirt", "Trouser", "Pullover", "Dress", "Coat", "Sandal", "Shirt",
       "Sneaker", "Bag", "Ankle Boot">>[y + 1]]

\* The lookups of one iteration: training_data[sample_idx] (IndexError
\* outside -len..len-1), labels_map[label] (KeyError for a label that is no
\* key) and figure.add_subplot(rows, cols, i) (ValueError unless
\* 1 <= i <= rows * cols).
LookupsSucceed(len, sample_idx, label, i) ==
  /\ sample_idx \in (0 - len)..(len - 1)
  /\ label \in DOMAIN LabelsMap
  /\ i \in 1..(VizRows * VizCols)

\* a draw with the upper end included, as random.randint(0, len) has it
ProbeIndicesInclusive(len) == {i \in 0..MaxProbe : i < len} \cup {len - 1, len}

\* The sample indices torch.randint(len(training_data), size=(1,)) is seen
\* to draw: the first ones and the last one of 0..len-1.
ProbeIndices(len) == {i \in 0..MaxProbe : i < len} \cup {len - 1}

NoLoop == [k |-> 0, i |-> 0, sample_idx |-> 0, label |-> 0, subplots |-> <<>>]

NoOneHot == [set |-> FALSE, y |-> 0, ds |-> <<>>, tt |-> <<>>]

DtReset ==
  /\ dt_download = "none"
  /\ dt_data = [training_data |-> Unbound, test_data |-> Unbound, ds |-> Unbound]
  /\ dt_loop = NoLoop
  /\ dt_loaders = [train |-> NoLoader, test |-> NoLoader]
  /\ dt_it = NoIterator
  /\ dt_batch = NoBatch
  /\ dt_passes = 0
  /\ dt_tt = "none"
  /\ dt_onehot = NoOneHot

\* A fresh kernel in a fresh working directory: nothing under root="data".
DtInit == dt_pc = "c1_train" /\ dt_fs = FALSE /\ DtReset

DtOff == dt_pc = "off" /\ dt_fs = FALSE /\ DtReset

\* training_data = datasets.FashionMNIST(root="data", train=True, download=True, ...)
\* test_data = datasets.FashionMNIST(root="data", train=False, download=True, ...)
\* ds = datasets.FashionMNIST(..., train=True, download=True, target_transform=Lambda(...))
DtLoad(at, name, train, target_transform, next) ==
  /\ dt_pc = at
  /\ \E outcome \in DownloadOutcomes(dt_fs) :
       /\ dt_download' = outcome
       /\ IF outcome = "failed"
          THEN /\ dt_pc' = "error"
               /\ UNCHANGED <<dt_fs, dt_data,
                 adVars, clVars, ymVars>>
          ELSE /\ dt_pc' = next
               /\ dt_fs' = TRUE
               /\ dt_data' = [dt_data EXCEPT ![name] = FashionMNIST(train, target_transform)]
  /\ UNCHANGED <<dt_loop, dt_loaders, dt_it, dt_batch, dt_passes, dt_tt, dt_onehot,
                 adVars, clVars, ymVars>>

DtLoadTraining == DtLoad("c1_train", "training_data", TRUE, "none", "c1_test")
DtLoadTest == DtLoad("c1_test", "test_data", FALSE, "none", "c3_loop")
DtBuildDs == DtLoad("c9", "ds", TRUE, "positional", "c11")

\* for i in range(1, cols * rows + 1): one iteration of the body
\*   sample_idx = torch.randint(len(training_data), size=(1,)).item()
\*   img, label = training_data[sample_idx]
\*   figure.add_subplot(rows, cols, i); plt.title(labels_map[label]); ...
DtLoopBody ==
  /\ dt_pc = "c3_loop"
  /\ dt_loop.k < Len(Range(1, VizCols * VizRows + 1))
  /\ \E idx \in ProbeIndices(dt_data.training_data.len), lbl \in Labels :
       /\ dt_loop' = [k |-> dt_loop.k + 1,
                      i |-> Range(1, VizCols * VizRows + 1)[dt_loop.k + 1],
                      sample_idx |-> idx,
                      label |-> lbl,
                      subplots |-> Append(dt_loop.subplots,
                                          Range(1, VizCols * VizRows + 1)[dt_loop.k + 1])]
       /\ dt_pc' = IF LookupsSucceed(dt_data.training_data.len, idx, lbl,
                                     Range(1, VizCols * VizRows + 1)[dt_loop.k + 1])
                   THEN "c3_loop"
                   ELSE "error"
  /\ UNCHANGED <<dt_fs, dt_download, dt_data, dt_loaders, dt_it, dt_batch,
                 dt_passes, dt_tt, dt_onehot,
                 adVars, clVars, ymVars>>

\* The range is exhausted: plt.show(), the last statement of the cell.  The
\* names sample_idx and label are not read again (the later cell binds
\* label anew before reading it); the model drops their values here.
DtLoopEnd ==
  /\ dt_pc = "c3_loop"
  /\ dt_loop.k >= Len(Range(1, VizCols * VizRows + 1))
  /\ dt_loop' = [dt_loop EXCEPT !.sample_idx = 0, !.label = 0]
  /\ dt_pc' = "c5"
  /\ UNCHANGED <<dt_fs, dt_download, dt_data, dt_loaders, dt_it, dt_batch,
                 dt_passes, dt_tt, dt_onehot,
                 adVars, clVars, ymVars>>

\* train_dataloader = DataLoader(training_data, batch_size=64, shuffle=True)
\* test_dataloader = DataLoader(test_data, batch_size=64, shuffle=True)
DtBuildLoaders ==
  /\ dt_pc = "c5"
  /\ dt_loaders' = [train |-> DataLoader(dt_data.training_data, BatchSize, TRUE),
                    test |-> DataLoader(dt_data.test_data, BatchSize, TRUE)]
  /\ dt_pc' = "c7"
  /\ UNCHANGED <<dt_fs, dt_download, dt_data, dt_loop, dt_it, dt_batch,
                 dt_passes, dt_tt, dt_onehot,
                 adVars, clVars, ymVars>>

\* iter(loader): a new pass; the sampler draws the order of the pass.
NewIterator(l, order) ==
  [started |-> TRUE, loader |-> l, order |-> order, served |-> 0,
   exhausted |-> FALSE, prev |-> dt_it.order]

\* train_features, train_labels = next(iter(train_dataloader))
DtFirstBatch ==
  /\ dt_pc = "c7"
  /\ \E order \in SamplerOrders(dt_loaders.train, dt_it) :
       /\ dt_it' = [NewIterator("train", order) EXCEPT !.served = 1]
       /\ dt_batch' = Collate(BatchIndices(dt_loaders.train, order, 0))
  /\ dt_pc' = "c7_done"
  /\ UNCHANGED <<dt_fs, dt_download, dt_data, dt_loop, dt_loaders, dt_passes,
                 dt_tt, dt_onehot,
                 adVars, clVars, ymVars>>

\* The notebook goes on to the transform cells.
DtGoOn ==
  /\ dt_pc = "c7_done"
  /\ dt_pc' = "c9"
  /\ UNCHANGED <<dt_fs, dt_download, dt_data, dt_loop, dt_loaders, dt_it, dt_batch,
                 dt_passes, dt_tt, dt_onehot,
                 adVars, clVars, ymVars>>

\* A pass over a loader (for batch in loader): iter(loader) starts it.  A
\* pass starts when no pass is in progress.
DtStartPass(l) ==
  /\ \/ dt_pc = "c7_done"
     \/ dt_pc = "iterate" /\ dt_it.exhausted
  /\ \E order \in SamplerOrders(dt_loaders[l], dt_it) :
       dt_it' = NewIterator(l, order)
  /\ dt_pc' = "iterate"
  /\ UNCHANGED <<dt_fs, dt_download, dt_data, dt_loop, dt_loaders, dt_batch,
                 dt_passes, dt_tt, dt_onehot,
                 adVars, clVars, ymVars>>

\* next(it): the next batch of the pass, or StopIteration at its end.
DtNextBatch ==
  /\ dt_pc = "iterate"
  /\ ~dt_it.exhausted
  /\ dt_passes < MaxPasses
  /\ IF dt_it.served < NumBatches(dt_loaders[dt_it.loader])
     THEN /\ dt_batch' = Collate(BatchIndices(dt_loaders[dt_it.loader], dt_it.order,
                                              dt_it.served))
          /\ dt_it' = [dt_it EXCEPT !.served = @ + 1]
          /\ UNCHANGED dt_passes
     ELSE /\ dt_it' = [dt_it EXCEPT !.exhausted = TRUE]
          /\ dt_passes' = dt_passes + 1
          /\ UNCHANGED dt_batch
  /\ UNCHANGED <<dt_pc, dt_fs, dt_download, dt_data, dt_loop, dt_loaders, dt_tt,
                 dt_onehot,
                 adVars, clVars, ymVars>>

\* target_transform = Lambda(lambda y: torch.zeros(10, ...).scatter_(dim=0, ...))
DtDefineTargetTransform ==
  /\ dt_pc = "c11"
  /\ dt_tt' = "keyword"
  /\ dt_pc' = "done"
  /\ UNCHANGED <<dt_fs, dt_download, dt_data, dt_loop, dt_loaders, dt_it, dt_batch,
                 dt_passes, dt_onehot,
                 adVars, clVars, ymVars>>

\* A label y is transformed: by ds (ds[idx] passes the sample's label to
\* ds.target_transform) and by target_transform(y).
DtTransformLabel(y) ==
  /\ dt_pc = "done"
  /\ dt_onehot' = [set |-> TRUE, y |-> y,
                   ds |-> ApplyLambda(dt_data.ds.target_transform, y),
                   tt |-> ApplyLambda(dt_tt, y)]
  /\ UNCHANGED <<dt_pc, dt_fs, dt_download, dt_data, dt_loop, dt_loaders, dt_it,
                 dt_batch, dt_passes, dt_tt,
                 adVars, clVars, ymVars>>

\* The kernel is restarted and the notebook run again in the same working
\* directory: the Python names are gone, the files under root stay.
DtRestart ==
  /\ dt_pc \in {"error", "done"}
  /\ dt_pc' = "c1_train"
  /\ dt_download' = "none"
  /\ dt_data' = [training_data |-> Unbound, test_data |-> Unbound, ds |-> Unbound]
  /\ dt_loop' = NoLoop
  /\ dt_loaders' = [train |-> NoLoader, test |-> NoLoader]
  /\ dt_it' = NoIterator
  /\ dt_batch' = NoBatch
  /\ dt_passes' = 0
  /\ dt_tt' = "none"
  /\ dt_onehot' = NoOneHot
  /\ UNCHANGED <<dt_fs, adVars, clVars, ymVars>>

DtNext ==
  \/ DtLoadTraining
  \/ DtLoadTest
  \/ DtLoopBody
  \/ DtLoopEnd
  \/ DtBuildLoaders
  \/ DtFirstBatch
  \/ DtGoOn
  \/ \E l \in {"train", "test"} : DtStartPass(l)
  \/ DtNextBatch
  \/ DtBuildDs
  \/ DtDefineTargetTransform
  \/ \E y \in Labels : DtTransformLabel(y)
  \/ DtRestart

(***************************************************************************)
(* The clustering notebook (01-clustering-introduction.ipynb).             *)
(***************************************************************************)
\* Bounds: the notebook is started at most MaxRuns times in one working
\* directory; a KMeans fit draws its initial centres with one of the seeds
\* 1..MaxSeed.
MaxRuns == 2
MaxSeed == 2

\* The file behind the URL is not part of the repository.  The model
\* downloads one of two tables of eight columns, the first six of them the
\* numeric features: ten and eleven distinct observations.
SeedsColumns == <<"c1", "c2", "c3", "c4", "c5", "c6", "c7", "species">>

SeedsFiles ==
  << [columns |-> SeedsColumns,
      rows |-> << <<30, 0, 0, 0, 0, 0, 5, 3>>,
                  <<10, 0, 0, 0, 0, 0, 4, 2>>,
                  << 0, 0, 0, 0, 0, 0, 3, 1>>,
                  << 1, 0, 0, 0, 0, 0, 3, 1>>,
                  <<10, 1, 0, 0, 0, 0, 4, 2>>,
                  <<10, 0, 1, 0, 0, 0, 4, 2>>,
                  <<10, 0, 0, 1, 0, 0, 4, 2>>,
                  <<10, 0, 0, 0, 1, 0, 4, 2>>,
                  <<10, 0, 0, 0, 0, 1, 4, 2>>,
                  <<11, 0, 0, 0, 0, 0, 4, 2>> >>],
     [columns |-> SeedsColumns,
      rows |-> << << 2,  5, 1,  7, 4,  0, 6, 1>>,
                  << 3,  5, 1,  7, 4,  0, 6, 1>>,
                  << 2,  6, 1,  7, 4,  0, 6, 1>>,
                  << 3,  6, 1,  7, 4,  0, 7, 1>>,
                  <<20,  1, 9,  2, 4, 15, 2, 2>>,
                  <<21,  1, 9,  2, 4, 15, 2, 2>>,
                  <<20,  2, 9,  2, 4, 15, 3, 2>>,
                  << 9, 19, 3, 14, 4, 29, 9, 3>>,
                  << 9, 18, 3, 14, 4, 29, 9, 3>>,
                  << 9, 19, 4, 14, 4, 29, 8, 3>>,
                  << 9, 18, 4, 14, 4, 29, 8, 3>> >>] >>

NoTable == [bound |-> FALSE, columns |-> <<>>, rows |-> <<>>, origin |-> 0]

\* !wget URL: a download that succeeds writes seeds.csv, or, when seeds.csv
\* exists already, the next free numbered name (seeds.csv.1, ...) and leaves
\* seeds.csv as it is; a download that fails writes nothing.  IPython runs
\* the command in a subshell and does not look at its exit status.
WgetOutcomes == {"ok", "failed"}

Wget(fs, outcome, run) ==
  IF outcome = "failed" THEN fs
  ELSE IF fs.seeds = 0 THEN [fs EXCEPT !.seeds = run]
  ELSE [fs EXCEPT !.copies = @ + 1]

\* pd.read_csv('seeds.csv'): the table in the file, tagged with the run
\* whose download wrote the file.
ReadCsv(fs) ==
  [bound |-> TRUE, columns |-> SeedsFiles[fs.remote].columns,
   rows |-> SeedsFiles[fs.remote].rows, origin |-> fs.seeds]

\* seq[a:b]
SliceFromOne(seq, a, b) == SubSeq(seq, a + 2, Min(b + 1, Len(seq)))

Slice(seq, a, b) == SubSeq(seq, a + 1, Min(b, Len(seq)))

ColumnPos(table, name) == CHOOSE j \in 1..Len(table.columns) : table.columns[j] = name

\* table[names]: the named columns, every row kept in place
Select(table, names) ==
  [table EXCEPT
     !.columns = names,
     !.rows = [i \in 1..Len(table.rows) |->
                 [j \in 1..Len(names) |-> table.rows[i][ColumnPos(table, names[j])]]]]

ColMin(X, j) ==
  CHOOSE m \in {X[i][j] : i \in 1..Len(X)} : \A i \in 1..Len(X) : m <= X[i][j]
ColMax(X, j) ==
  CHOOSE m \in {X[i][j] : i \in 1..Len(X)} : \A i \in 1..Len(X) : m >= X[i][j]

RECURSIVE Gcd(_, _)
Gcd(a, b) == IF b = 0 THEN a ELSE Gcd(b, a % b)

Lcm(a, b) == (a * b) \div Gcd(a, b)

(***************************************************************************)
(* The floating-point numbers of the scaler.  A number is kept as the      *)
(* fraction num/den in lowest terms that it equals.  The result of every   *)
(* operation is rounded to the nearest number with MantissaBits            *)
(* significant bits, ties to the even mantissa, as IEEE 754 arithmetic     *)
(* does with the 53 bits of a float64; the exponent is not bounded.        *)
(***************************************************************************)
MantissaBits == 6

RECURSIVE Pow2(_)
Pow2(n) == IF n <= 0 THEN 1 ELSE 2 * Pow2(n - 1)

Abs(n) == IF n < 0 THEN 0 - n ELSE n

\* the fraction n/d, d > 0, in lowest terms
Rat(n, d) == [num |-> n \div Gcd(Abs(n), d), den |-> d \div Gcd(Abs(n), d)]

Zero == [num |-> 0, den |-> 1]
One == [num |-> 1, den |-> 1]

RatLeq(x, y) == x.num * y.den <= y.num * x.den

\* a/d rounded to an integer, a tie to the even one
NearestEven(a, d) ==
  IF 2 * (a % d) > d \/ (2 * (a % d) = d /\ (a \div d) % 2 = 1)
  THEN (a \div d) + 1
  ELSE a \div d

\* a/d > 0 rounded to MantissaBits significant bits: m * 2^e for the
\* exponent e that puts the mantissa m between 2^(MantissaBits - 1) and
\* 2^MantissaBits
RECURSIVE RoundPos(_, _, _, _)
RoundPos(a, d, up, down) ==
  IF a >= d * Pow2(MantissaBits) THEN RoundPos(a, 2 * d, 2 * up, down)
  ELSE IF a < d * Pow2(MantissaBits - 1) THEN RoundPos(2 * a, d, up, 2 * down)
  ELSE Rat(NearestEven(a, d) * up, down)

Neg(q) == [num |-> 0 - q.num, den |-> q.den]

Fl(q) ==
  IF q.num = 0 THEN Zero
  ELSE IF q.num > 0 THEN RoundPos(q.num, q.den, 1, 1)
  ELSE Neg(RoundPos(0 - q.num, q.den, 1, 1))

FlAdd(x, y) == Fl(Rat(x.num * (Lcm(x.den, y.den) \div x.den)
                        + y.num * (Lcm(x.den, y.den) \div y.den),
                      Lcm(x.den, y.den)))
FlSub(x, y) == FlAdd(x, Neg(y))
FlMul(x, y) == Fl(Rat(x.num * y.num, x.den * y.den))
\* x / y, y not 0
FlDiv(x, y) ==
  IF y.num > 0 THEN Fl(Rat(x.num * y.den, x.den * y.num))
  ELSE Fl(Rat(0 - x.num * y.den, x.den * (0 - y.num)))

\* the float64 that holds the integer n of the table
FromInt(n) == Fl(Rat(n, 1))

(***************************************************************************)
(* MinMaxScaler().fit_transform(X), feature_range (0, 1).  fit computes,   *)
(* column by column, data_range = data_max - data_min, scale_ = 1 /        *)
(* data_range (a data_range of 0 is replaced by 1) and min_ = 0 -          *)
(* data_min * scale_; transform computes X * scale_ + min_.                *)
(***************************************************************************)
DataRange(X, j) == FlSub(FromInt(ColMax(X, j)), FromInt(ColMin(X, j)))

HandleZerosInScale(r) == IF r = Zero THEN One ELSE r

\* scale_ taken from data_max alone, not from data_range
ScaleByMax(X, j) == FlDiv(One, HandleZerosInScale(FromInt(ColMax(X, j))))

Scale(X, j) == FlDiv(One, HandleZerosInScale(DataRange(X, j)))

MinOffset(X, j) == FlSub(Zero, FlMul(FromInt(ColMin(X, j)), Scale(X, j)))

Transform(x, scale, min) == FlAdd(FlMul(x, scale), min)

MinMaxCompute(X) ==
  <<>> \o [i \in 1..Len(X) |->
             <<>> \o [j \in 1..Cols(X) |->
                        Transform(FromInt(X[i][j]), Scale(X, j), MinOffset(X, j))]]

\* PCA(n_components=n).fit(X) and pca.transform(X).  The principal axes are
\* not computed: coordinate c of row i is kept as the term "row X[i]
\* projected on component c".
PcaFit(X, n) == [n_components |-> n, n_features |-> Cols(X)]

PcaTransform(pca, X) ==
  [i \in 1..Len(X) |-> [c \in 1..pca.n_components |-> [component |-> c, of |-> X[i]]]]

(***************************************************************************)
(* KMeans(n_clusters=k).fit(X): Lloyd's iteration from k initial centres   *)
(* drawn among the rows of X, run until the labels no longer change.  A    *)
(* centre is kept as the sum s and the number n of the rows it averages.   *)
(***************************************************************************)
NoModel == [n_clusters |-> 0, fitted |-> FALSE, inertia_ |-> 0, scale |-> 1]

\* Sequences built by a function constructor are written <<>> \o [...] where
\* they are read many times, so that they are held as tuples of values.

\* n^2 times the squared distance of row x to centre c
Dist2(x, c) == SumSeq([j \in 1..Len(x) |-> (c.n * x[j] - c.s[j]) * (c.n * x[j] - c.s[j])])

\* the nearest centre of x, the first of them when several are as near
\* (distances to centres averaging different numbers of rows are compared
\* after cross-multiplying by the squares of the numbers)
First(d, w) ==
  CHOOSE c \in 1..Len(d) :
    /\ \A e \in 1..Len(d) : d[c] * w[e] <= d[e] * w[c]
    /\ \A e \in 1..(c - 1) : d[e] * w[c] > d[c] * w[e]

Nearest(x, centres) ==
  First(<<>> \o [c \in 1..Len(centres) |-> Dist2(x, centres[c])],
        <<>> \o [c \in 1..Len(centres) |-> centres[c].n * centres[c].n])

Assign(X, centres) == <<>> \o [i \in 1..Len(X) |-> Nearest(X[i], centres)]

\* the sum and the number of the rows labelled c
Members(X, labels, c) ==
  [s |-> <<>> \o [j \in 1..Cols(X) |->
                     SumSeq([i \in 1..Len(X) |-> IF labels[i] = c THEN X[i][j] ELSE 0])],
   n |-> Cardinality({i \in 1..Len(X) : labels[i] = c})]

\* the centres moved to the means of their rows; a centre without rows stays
Update(X, labels, centres) ==
  <<>> \o [c \in 1..Len(centres) |->
     IF \E i \in 1..Len(X) : labels[i] = c THEN Members(X, labels, c) ELSE centres[c]]

RECURSIVE Lloyd(_, _, _)
Round(X, centres, labels, new) ==
  IF new = labels THEN [centres |-> centres, labels |-> labels]
  ELSE Lloyd(X, Update(X, new, centres), new)

Lloyd(X, centres, labels) == Round(X, centres, labels, Assign(X, centres))

\* The initial centres for a seed: k rows of X, from row number seed on.
InitCentres(X, k, seed) ==
  <<>> \o [c \in 1..k |-> [s |-> X[((seed + c - 2) % Len(X)) + 1], n |-> 1]]

\* the least common multiple of 1..n
RECURSIVE LcmUpTo(_)
LcmUpTo(n) == IF n <= 1 THEN 1 ELSE Lcm(LcmUpTo(n - 1), n)

\* scale times the sum of the squared distances of the rows to the mean of
\* their cluster: for a cluster with n rows, sum of squares Q and sum S it is
\* (n * Q - S.S) / n.
SumSquares(X, labels, c) ==
  SumSeq([i \in 1..Len(X) |->
            IF labels[i] = c THEN SumSeq([j \in 1..Cols(X) |-> X[i][j] * X[i][j]]) ELSE 0])

\* the squares summed about the origin instead of about the cluster's mean
ClusterSumOfSquares(m, q, scale) == scale * q

ClusterInertia(m, q, scale) ==
  IF m.n = 0 THEN 0
  ELSE (m.n * q - SumSeq([j \in 1..Len(m.s) |-> m.s[j] * m.s[j]])) * (scale \div m.n)

Inertia(X, labels, k, scale) ==
  SumSeq([c \in 1..k |->
            ClusterInertia(Members(X, labels, c), SumSquares(X, labels, c), scale)])

\* The fitted model; inertia_ is kept in units of 1/scale, scale a common
\* multiple of all cluster sizes.
KMeansCompute(X, k, seed) ==
  LET scale == LcmUpTo(Len(X))
      fit == Lloyd(X, InitCentres(X, k, seed), <<>>)
  IN  [n_clusters |-> k, fitted |-> TRUE, scale |-> scale,
       inertia_ |-> Inertia(X, fit.labels, k, scale)]

\* The feature values of the downloadable tables, and the fits on them for
\* every number of clusters up to the number of rows and every seed,
\* computed once.
KnownValues ==
  [f \in 1..Len(SeedsFiles) |->
     [i \in 1..Len(SeedsFiles[f].rows) |-> SubSeq(SeedsFiles[f].rows[i], 1, 6)]]

KnownFits ==
  [f \in 1..Len(SeedsFiles) |->
     [k \in 1..Len(KnownValues[f]) |->
        [seed \in 1..MaxSeed |-> KMeansCompute(KnownValues[f], k, seed)]]]

\* MinMaxScaler().fit_transform on the feature values of the downloadable
\* tables, computed once.
KnownScalings ==
  <<>> \o [f \in 1..Len(SeedsFiles) |-> MinMaxCompute(KnownValues[f])]

\* MinMaxScaler().fit_transform(X)
MinMaxFitTransform(X) ==
  IF \E f \in 1..Len(KnownValues) : KnownValues[f] = X
  THEN KnownScalings[CHOOSE f \in 1..Len(KnownValues) : KnownValues[f] = X]
  ELSE MinMaxCompute(X)

\* kmeans.fit(X) for KMeans(n_clusters=k) with the given seed
KMeansFit(X, k, seed) ==
  IF \E f \in 1..Len(KnownValues) : KnownValues[f] = X
  THEN KnownFits[CHOOSE f \in 1..Len(KnownValues) : KnownValues[f] = X][k][seed]
  ELSE KMeansCompute(X, k, seed)

\* range(1, 11) of the cluster-count loop and of the plot
FirstK == 1
StopK == 11

NoClLoop == [k |-> 0, i |-> 0]
NoPlot == [drawn |-> FALSE, x |-> <<>>, y |-> <<>>]

ClReset ==
  /\ cl_wget = "none"
  /\ cl_data = NoTable
  /\ cl_features = NoTable
  /\ cl_scaled = <<>>
  /\ cl_2d = <<>>
  /\ cl_loop = NoClLoop
  /\ cl_kmeans = NoModel
  /\ cl_wcss = <<>>
  /\ cl_plot = NoPlot

\* A fresh kernel in a working directory without seeds.csv; the table behind
\* the URL is one of SeedsFiles.
ClInit ==
  /\ cl_pc = "c1_wget"
  /\ cl_run = 1
  /\ cl_fs \in [remote : 1..Len(SeedsFiles), seeds : {0}, copies : {0}]
  /\ ClReset

ClOff ==
  /\ cl_pc = "off"
  /\ cl_run = 0
  /\ cl_fs = [remote |-> 1, seeds |-> 0, copies |-> 0]
  /\ ClReset

\* !wget https://.../seeds.csv
ClWget ==
  /\ cl_pc = "c1_wget"
  /\ \E outcome \in WgetOutcomes :
       /\ cl_wget' = outcome
       /\ cl_fs' = Wget(cl_fs, outcome, cl_run)
  /\ cl_pc' = "c1_read"
  /\ UNCHANGED <<cl_run, cl_data, cl_features, cl_scaled, cl_2d, cl_loop, cl_kmeans,
                 cl_wcss, cl_plot, adVars, dtVars, ymVars>>

\* data = pd.read_csv('seeds.csv'): FileNotFoundError without the file
ClReadCsv ==
  /\ cl_pc = "c1_read"
  /\ IF cl_fs.seeds = 0
     THEN /\ cl_pc' = "error"
          /\ UNCHANGED cl_data
     ELSE /\ cl_pc' = "c1_features"
          /\ cl_data' = ReadCsv(cl_fs)
  /\ UNCHANGED <<cl_run, cl_fs, cl_wget, cl_features, cl_scaled, cl_2d, cl_loop,
                 cl_kmeans, cl_wcss, cl_plot, adVars, dtVars, ymVars>>

\* features = data[data.columns[0:6]]
ClFeatures ==
  /\ cl_pc = "c1_features"
  /\ cl_features' = Select(cl_data, Slice(cl_data.columns, 0, 6))
  /\ cl_pc' = "c1_sample"
  /\ UNCHANGED <<cl_run, cl_fs, cl_wget, cl_data, cl_scaled, cl_2d, cl_loop,
                 cl_kmeans, cl_wcss, cl_plot, adVars, dtVars, ymVars>>

\* features.sample(10): ValueError with fewer than 10 rows
ClSample ==
  /\ cl_pc = "c1_sample"
  /\ cl_pc' = IF Len(cl_features.rows) < 10 THEN "error" ELSE "c2_scale"
  /\ UNCHANGED <<cl_run, cl_fs, cl_wget, cl_data, cl_features, cl_scaled, cl_2d,
                 cl_loop, cl_kmeans, cl_wcss, cl_plot, adVars, dtVars, ymVars>>

\* scaled_features = MinMaxScaler().fit_transform(features[data.columns[0:6]])
ClScale ==
  /\ cl_pc = "c2_scale"
  /\ cl_scaled' = MinMaxFitTransform(Select(cl_features, Slice(cl_data.columns, 0, 6)).rows)
  /\ cl_pc' = "c2_pca"
  /\ UNCHANGED <<cl_run, cl_fs, cl_wget, cl_data, cl_features, cl_2d, cl_loop,
                 cl_kmeans, cl_wcss, cl_plot, adVars, dtVars, ymVars>>

\* pca = PCA(n_components=2).fit(scaled_features)
\* features_2d = pca.transform(scaled_features)
ClPca ==
  /\ cl_pc = "c2_pca"
  /\ cl_2d' = PcaTransform(PcaFit(cl_scaled, 2), cl_scaled)
  /\ cl_pc' = "c3_scatter"
  /\ UNCHANGED <<cl_run, cl_fs, cl_wget, cl_data, cl_features, cl_scaled, cl_loop,
                 cl_kmeans, cl_wcss, cl_plot, adVars, dtVars, ymVars>>

\* plt.scatter(features_2d[:,0], features_2d[:,1]); ...; plt.show()
\* wcss = []
ClScatterAndInitWcss ==
  /\ cl_pc = "c3_scatter"
  /\ cl_wcss' = <<>>
  /\ cl_loop' = NoClLoop
  /\ cl_pc' = "c7_for"
  /\ UNCHANGED <<cl_run, cl_fs, cl_wget, cl_data, cl_features, cl_scaled, cl_2d,
                 cl_kmeans, cl_plot, adVars, dtVars, ymVars>>

\* for i in range(1, 11): the next value of i, or the end of the loop
ClForNext ==
  /\ cl_pc = "c7_for"
  /\ IF cl_loop.k < Len(Range(FirstK, StopK))
     THEN /\ cl_loop' = [k |-> cl_loop.k + 1, i |-> Range(FirstK, StopK)[cl_loop.k + 1]]
          /\ cl_pc' = "c7_new"
     ELSE /\ cl_pc' = "c7_plot"
          /\ UNCHANGED cl_loop
  /\ UNCHANGED <<cl_run, cl_fs, cl_wget, cl_data, cl_features, cl_scaled, cl_2d,
                 cl_kmeans, cl_wcss, cl_plot, adVars, dtVars, ymVars>>

\* kmeans = KMeans(n_clusters = i)
ClNewKMeans ==
  /\ cl_pc = "c7_new"
  /\ cl_kmeans' = [NoModel EXCEPT !.n_clusters = cl_loop.i]
  /\ cl_pc' = "c7_fit"
  /\ UNCHANGED <<cl_run, cl_fs, cl_wget, cl_data, cl_features, cl_scaled, cl_2d,
                 cl_loop, cl_wcss, cl_plot, adVars, dtVars, ymVars>>

\* kmeans.fit(features.values): ValueError unless 1 <= n_clusters <= rows
ClFit ==
  /\ cl_pc = "c7_fit"
  /\ IF cl_kmeans.n_clusters < 1 \/ cl_kmeans.n_clusters > Len(cl_features.rows)
     THEN /\ cl_pc' = "error"
          /\ UNCHANGED cl_kmeans
     ELSE /\ \E seed \in 1..MaxSeed :
               cl_kmeans' = KMeansFit(cl_features.rows, cl_kmeans.n_clusters, seed)
          /\ cl_pc' = "c7_append"
  /\ UNCHANGED <<cl_run, cl_fs, cl_wget, cl_data, cl_features, cl_scaled, cl_2d,
                 cl_loop, cl_wcss, cl_plot, adVars, dtVars, ymVars>>

\* wcss.insert(0, kmeans.inertia_): the new value put first, not last
ClInsertFirst ==
  /\ cl_pc = "c7_append"
  /\ cl_wcss' = <<cl_kmeans.inertia_>> \o cl_wcss
  /\ cl_pc' = "c7_for"
  /\ UNCHANGED <<cl_run, cl_fs, cl_wget, cl_data, cl_features, cl_scaled, cl_2d,
                 cl_loop, cl_kmeans, cl_plot, adVars, dtVars, ymVars>>

\* wcss.append(kmeans.inertia_)
ClAppend ==
  /\ cl_pc = "c7_append"
  /\ cl_wcss' = Append(cl_wcss, cl_kmeans.inertia_)
  /\ cl_pc' = "c7_for"
  /\ UNCHANGED <<cl_run, cl_fs, cl_wget, cl_data, cl_features, cl_scaled, cl_2d,
                 cl_loop, cl_kmeans, cl_plot, adVars, dtVars, ymVars>>

\* plt.plot(range(1, 11), wcss); ...; plt.show(): ValueError when x and y
\* differ in length
ClPlot ==
  /\ cl_pc = "c7_plot"
  /\ IF Len(Range(FirstK, StopK)) # Len(cl_wcss)
     THEN /\ cl_pc' = "error"
          /\ UNCHANGED cl_plot
     ELSE /\ cl_plot' = [drawn |-> TRUE, x |-> Range(FirstK, StopK), y |-> cl_wcss]
          /\ cl_pc' = "done"
  /\ UNCHANGED <<cl_run, cl_fs, cl_wget, cl_data, cl_features, cl_scaled, cl_2d,
                 cl_loop, cl_kmeans, cl_wcss, adVars, dtVars, ymVars>>

\* The kernel is restarted and the notebook run again in the same working
\* directory: the Python names are gone, the files stay.
ClRestart ==
  /\ cl_pc \in {"error", "done"}
  /\ cl_run < MaxRuns
  /\ cl_run' = cl_run + 1
  /\ cl_pc' = "c1_wget"
  /\ cl_wget' = "none"
  /\ cl_data' = NoTable
  /\ cl_features' = NoTable
  /\ cl_scaled' = <<>>
  /\ cl_2d' = <<>>
  /\ cl_loop' = NoClLoop
  /\ cl_kmeans' = NoModel
  /\ cl_wcss' = <<>>
  /\ cl_plot' = NoPlot
  /\ UNCHANGED <<cl_fs, adVars, dtVars, ymVars>>

\* the statements of the notebook's cells
ClStatement ==
  \/ ClWget
  \/ ClReadCsv
  \/ ClFeatures
  \/ ClSample
  \/ ClScale
  \/ ClPca
  \/ ClScatterAndInitWcss
  \/ ClForNext
  \/ ClNewKMeans
  \/ ClFit
  \/ ClAppend
  \/ ClPlot

ClNext == ClStatement \/ ClRestart

(***************************************************************************)
(* The module metadata files (index.yml).  A file is kept as the text of   *)
(* its uid line and of the lines of its units list; a reader takes the     *)
(* uid and then the entries of the list one by one, each a YAML scalar.    *)
(***************************************************************************)
ModuleFiles ==
  << [path |-> "unnamed/part_000",
      uid |-> "uid: learn.azure.ai-machine-learning-fundamentals",
      units |->
        << "- learn.azure.ai-machine-learning-fundamentals.introduction",
           "- learn.azure.ai-machine-learning-fundamentals.identify-product-options",
           "- learn.azure.ai-machine-learning-fundamentals.analyze-decision-criteria",
           "- learn.azure.ai-machine-learning-fundamentals.use-machine-learning",
           "- ' learn.azure.ai-machine-learning-fundamentals.use-cognitive-services'",
           "- learn.azure.ai-machine-learning-fundamentals.use-bot-services",
           "- learn.azure.ai-machine-learning-fundamentals.knowledge-check",
           "- learn.azure.ai-machine-learning-fundamentals.summary" >>],
     [path |-> "learn-pr/advocates/responsible-bots-introduction/index.yml",
      uid |-> "uid: learn.advocates.responsible-bots-introduction",
      units |->
        << "- learn.advocates.responsible-bots-introduction.1-introduction",
           "- learn.advocates.responsible-bots-introduction.2-what-is-responsible-bot",
           "- learn.advocates.responsible-bots-introduction.3-how-responsible-bot-works",
           "- learn.advocates.responsible-bots-introduction.4-when-to-use-responsible-bot",
           "- learn.advocates.responsible-bots-introduction.5-knowledge-check",
           "- learn.advocates.responsible-bots-introduction.6-summary" >>] >>

RECURSIVE StripLeft(_)
StripLeft(s) ==
  IF Len(s) > 0 /\ SubSeq(s, 1, 1) = " " THEN StripLeft(SubSeq(s, 2, Len(s))) ELSE s

RECURSIVE StripRight(_)
StripRight(s) ==
  IF Len(s) > 0 /\ SubSeq(s, Len(s), Len(s)) = " "
  THEN StripRight(SubSeq(s, 1, Len(s) - 1))
  ELSE s

\* The value of a YAML flow scalar: a plain scalar is the text without the
\* spaces around it; a single-quoted scalar is what stands between the
\* quotes, spaces included.
YamlScalar(text) ==
  LET t == StripRight(StripLeft(text))
  IN  IF Len(t) >= 2 /\ SubSeq(t, 1, 1) = "'" /\ SubSeq(t, Len(t), Len(t)) = "'"
      THEN SubSeq(t, 2, Len(t) - 1)
      ELSE t

\* the value of a line "uid: value" or "- value"
ValueAfter(key, line) == YamlScalar(SubSeq(line, Len(key) + 1, Len(line)))

YmInit ==
  /\ ym_pc = "open"
  /\ ym_file = 0
  /\ ym_uid = ""
  /\ ym_units = <<>>
  /\ ym_line = 0

YmOff ==
  /\ ym_pc = "off"
  /\ ym_file = 0
  /\ ym_uid = ""
  /\ ym_units = <<>>
  /\ ym_line = 0

\* a module file is opened and its uid read
YmOpen ==
  /\ ym_pc = "open"
  /\ \E f \in 1..Len(ModuleFiles) :
       /\ ym_file' = f
       /\ ym_uid' = ValueAfter("uid:", ModuleFiles[f].uid)
  /\ ym_pc' = "units"
  /\ UNCHANGED <<ym_units, ym_line, adVars, dtVars, clVars>>

\* the next entry of the units list is read
YmReadUnit ==
  /\ ym_pc = "units"
  /\ ym_line < Len(ModuleFiles[ym_file].units)
  /\ ym_units' = Append(ym_units, ValueAfter("-", ModuleFiles[ym_file].units[ym_line + 1]))
  /\ ym_line' = ym_line + 1
  /\ UNCHANGED <<ym_pc, ym_file, ym_uid, adVars, dtVars, clVars>>

\* the units list has ended
YmEndUnits ==
  /\ ym_pc = "units"
  /\ ym_line = Len(ModuleFiles[ym_file].units)
  /\ ym_pc' = "done"
  /\ UNCHANGED <<ym_file, ym_uid, ym_units, ym_line, adVars, dtVars, clVars>>

YmNext == YmOpen \/ YmReadUnit \/ YmEndUnits

AdOff ==
  /\ ad_pc = <<"off", "off">>
  /\ ad_in = [U |-> NotebookU, V |-> NotebookV]
  /\ ad_env = [n \in Names |-> Undefined]
  /\ ad_tape = [c \in {"c2", "c4"} |-> NoTape]
  /\ ad_out = [c \in {"c2", "c4"} |-> <<>>]

\* One notebook is run, in its own kernel, or one module file is read.
Init ==
  \/ AdInit /\ DtOff /\ ClOff /\ YmOff
  \/ AdOff /\ DtInit /\ ClOff /\ YmOff
  \/ AdOff /\ DtOff /\ ClInit /\ YmOff
  \/ AdOff /\ DtOff /\ ClOff /\ YmInit

Next == AdNext \/ DtNext \/ ClNext \/ YmNext

Spec == Init /\ [][Next]_vars

\* The data notebook alone, run in its own kernel.
DataInit == AdOff /\ DtInit /\ ClOff /\ YmOff

DataSpec == DataInit /\ [][DtNext]_vars

\* A cell runs its statements one after the other without waiting on
\* anything: in the cells of the clustering notebook and in the
\* sample-visualization loop the statement that is next is eventually run.
\* (Restarting a kernel and iterating over a loader are left to the user.)
FairSpec == Spec /\ WF_vars(ClStatement) /\ WF_vars(DtLoopBody \/ DtLoopEnd)

(***************************************************************************)
(* Claims about the autodiff notebook.                                      *)
(***************************************************************************)

\* C1: for f(U, V) = sum(U . V), U 1x2 and V 2x2, the tape's gradient for U
\* is [[v11 + v12, v21 + v22]] and its gradient for V is [[u1, u1], [u2, u2]];
\* for the notebook's U = [[1, 2]], V = [[3, 4], [5, 6]] these are [[7, 11]]
\* and [[1, 1], [2, 2]].
C1_TapeGradientsAreThePartialDerivatives ==
  LET U == ad_in.U
      V == ad_in.V
      out == ad_out["c2"]
  IN  /\ Len(out) >= 1 =>
           /\ out[1] = SomeGrad(<<<<V[1][1] + V[1][2], V[2][1] + V[2][2]>>>>)
           /\ (U = NotebookU /\ V = NotebookV) => out[1] = SomeGrad(<<<<7, 11>>>>)
      /\ Len(out) >= 2 =>
           /\ out[2] = SomeGrad(<<<<U[1][1], U[1][1]>>, <<U[1][2], U[1][2]>>>>)
           /\ (U = NotebookU /\ V = NotebookV) =>
                 out[2] = SomeGrad(<<<<1, 1>>, <<2, 2>>>>)

\* The first program has printed both gradients for the notebook's tensors.
C1_Witness ==
  /\ ad_in.U = NotebookU
  /\ ad_in.V = NotebookV
  /\ ad_out["c2"] = <<SomeGrad(<<<<7, 11>>>>), SomeGrad(<<<<1, 1>>, <<2, 2>>>>)>>

\* C2: the second program (U, V variables, no watch calls) records the same
\* operations and prints the same two gradients as the first program (U, V
\* constants, each watched), for every choice of U and V.
C2_VariablesAreWatchedAutomatically ==
  /\ Len(ad_out["c4"]) >= 1 => ad_out["c4"][1] = ad_out["c2"][1]
  /\ Len(ad_out["c4"]) >= 2 => ad_out["c4"][2] = ad_out["c2"][2]
  /\ ad_pc[1] = "end" => ad_tape["c4"].ops = ad_tape["c2"].ops

\* The second program has ended: U and V are variables that no statement
\* watched, and a gradient was printed for each.
C2_Witness ==
  /\ ad_pc = <<"end", "done">>
  /\ ad_env["U"].kind = "variable" /\ ad_env["V"].kind = "variable"
  /\ ad_in.U # NotebookU
  /\ Len(ad_tape["c4"].ops) = 2
  /\ Len(ad_out["c4"]) = 2 /\ ~ad_out["c4"][1].none /\ ~ad_out["c4"][2].none

(***************************************************************************)
(* Claims about the data notebook.                                         *)
(***************************************************************************)

\* C3: the label transform turns a label y in 0..9 into a one-hot tensor of
\* 10 entries, 1 at index y and 0 elsewhere, and the positional form (of ds)
\* and the keyword form (of target_transform) give the same result.
C3_LabelTransformIsOneHot ==
  dt_onehot.set =>
    LET y == dt_onehot.y
    IN  /\ \A r \in {dt_onehot.ds, dt_onehot.tt} :
              /\ Len(r) = 10
              /\ r[y + 1] = 1
              /\ \A i \in 1..10 : i # y + 1 => r[i] = 0
        /\ dt_onehot.ds = dt_onehot.tt

\* The last label, 9, was transformed by both forms.
C3_Witness ==
  /\ dt_onehot.set
  /\ dt_onehot.y = 9
  /\ dt_data.ds.target_transform = "positional" /\ dt_tt = "keyword"
  /\ dt_onehot.ds = <<0, 0, 0, 0, 0, 0, 0, 0, 0, 1>>

C7_EachPassDrawsItsOrder ==
  (dt_pc = "iterate" /\ dt_it.exhausted) =>
    \A l \in {"train", "test"}, o \in Orders :
      ENABLED (DtStartPass(l) /\ dt_it'.order = o)

\* A pass was iterated to its end and the next pass has started with an
\* order other than the one before.
C7_Witness ==
  /\ dt_pc = "iterate"
  /\ dt_passes >= 1
  /\ dt_it.started /\ ~dt_it.exhausted /\ dt_it.served = 0
  /\ dt_it.order # dt_it.prev

(***************************************************************************)
(* Claims about the clustering notebook and about the notebooks' loops and *)
(* downloads.                                                               *)
(***************************************************************************)

\* C4: the cluster-count search fits the models with 1, 2, ..., 10 clusters
\* in this order on the same feature values.  At the start of the iteration
\* for i clusters wcss holds i - 1 values; the value recorded at place k is
\* the inertia of a model with k clusters fitted on the feature values; when
\* the loop has ended wcss holds exactly 10 values; and the plot pairs the x
\* values 1..10 one to one with the recorded values.
C4_WcssHoldsOneInertiaPerClusterCount ==
  /\ cl_pc \in {"c7_new", "c7_fit", "c7_append"} =>
       /\ cl_loop.i = cl_loop.k
       /\ Len(cl_wcss) = cl_loop.i - 1
  /\ cl_pc \in {"c7_fit", "c7_append"} => cl_kmeans.n_clusters = cl_loop.i
  /\ cl_pc \in {"c7_plot", "done"} => Len(cl_wcss) = 10
  /\ \A k \in 1..Len(cl_wcss) :
       \E seed \in 1..MaxSeed :
         cl_wcss[k] = KMeansFit(cl_features.rows, k, seed).inertia_
  /\ cl_plot.drawn =>
       /\ cl_plot.x = [k \in 1..10 |-> k]
       /\ cl_plot.y = cl_wcss
       /\ Len(cl_plot.x) = Len(cl_plot.y)

C4_Witness ==
  /\ cl_pc = "done"
  /\ cl_plot.drawn
  /\ Len(cl_plot.y) = 10
  /\ \E k \in 1..9 : cl_plot.y[k] # cl_plot.y[k + 1]

C8_FailedDownloadEndsInError ==
  /\ dt_download = "failed" => dt_pc = "error"
  /\ (cl_wget = "failed" /\ cl_pc # "c1_read") =>
       /\ cl_pc = "error"
       /\ ~cl_data.bound

\* C9: the cluster-count loop ends after exactly 10 iterations and the
\* sample-visualization loop after exactly 9; a cell that has entered its
\* loop runs on to its last statement, and a run of the clustering notebook
\* that is started ends, finished or with an error.
C9_LoopsEndAndCellsRunToCompletion ==
  /\ [](cl_pc \in {"c7_plot", "done"} => (cl_loop.k = 10 /\ cl_loop.i = 10))
  /\ [](dt_pc \in {"c5", "c7", "c7_done", "iterate", "c9", "c11", "done"} =>
          (dt_loop.k = 9 /\ dt_loop.subplots = <<1, 2, 3, 4, 5, 6, 7, 8, 9>>))
  /\ (cl_pc = "c7_for") ~> (cl_pc = "done")
  /\ (dt_pc = "c3_loop") ~> (dt_pc = "c5")
  /\ (cl_pc = "c1_wget") ~> (cl_pc \in {"done", "error"})

C9_Witness ==
  /\ cl_pc = "done"
  /\ cl_loop.k = 10
  /\ cl_kmeans.n_clusters = 10

\* the first six entries of every row
FirstSix(rows) == [i \in 1..Len(rows) |-> SubSeq(rows[i], 1, 6)]

\* C10: features holds, row for row and in the order of data, the first six
\* columns of data; scaled_features holds six values per row, the scaled
\* values of the first six entries of that row of data;
\* features_2d holds two values per row, the two components of the same row
\* of scaled_features; all three have as many rows as data.
C10_RowsAreCarriedThroughThePipeline ==
  /\ cl_features.bound =>
       /\ cl_features.columns = SubSeq(cl_data.columns, 1, 6)
       /\ Len(cl_features.rows) = Len(cl_data.rows)
       /\ \A i \in 1..Len(cl_data.rows) :
            cl_features.rows[i] = SubSeq(cl_data.rows[i], 1, 6)
  /\ cl_scaled # <<>> =>
       /\ Len(cl_scaled) = Len(cl_data.rows)
       /\ \A T \in {MinMaxFitTransform(FirstSix(cl_data.rows))} :
            \A i \in 1..Len(cl_data.rows) :
              /\ Len(cl_scaled[i]) = 6
              /\ \A j \in 1..6 : cl_scaled[i][j] = T[i][j]
  /\ cl_2d # <<>> =>
       /\ Len(cl_2d) = Len(cl_data.rows)
       /\ \A i \in 1..Len(cl_data.rows) :
            /\ Len(cl_2d[i]) = 2
            /\ \A c \in 1..2 : cl_2d[i][c] = [component |-> c, of |-> cl_scaled[i]]

C10_Witness ==
  /\ cl_pc = "c3_scatter"
  /\ Len(cl_2d) = Len(cl_data.rows)
  /\ Len(cl_data.rows) >= 10
  /\ Len(cl_data.columns) > 6

ScaledFrom0AndInOrder(S, X, j) ==
  \A lo \in {ColMin(X, j)} : \A hi \in {ColMax(X, j)} : \A i \in 1..Len(S) :
    /\ RatLeq(Zero, S[i][j])
    /\ X[i][j] = lo => S[i][j] = Zero
    /\ \A r \in 1..Len(S) : X[i][j] <= X[r][j] => RatLeq(S[i][j], S[r][j])
    /\ (lo # hi /\ X[i][j] = hi) =>
         Abs(S[i][j].num - S[i][j].den) * (hi - lo) * Pow2(MantissaBits - 1)
           <= (2 * (hi - lo) + Abs(hi) + Abs(lo)) * S[i][j].den

DeliveredInPass(loader, order) ==
  { BatchIndices(loader, order, b)[Min(j, BatchLen(loader, b))] :
      b \in 0..(NumBatches(loader) - 1), j \in 1..loader.batch_size }

\* C12: in one complete pass over a DataLoader the batches partition the
\* dataset.  Every batch returned is the next batch of the pass, and in it
\* the feature and the label at the same position belong to the same sample;
\* when the pass has ended, the batches of the pass hold every sample index
\* 0..len-1 of the dataset and together (all batches of batch_size samples
\* and the last batch) as many indices as the dataset has samples, so that
\* no index is delivered twice or skipped.
C12_BatchesPartitionTheDataset ==
  /\ (dt_it.started /\ dt_it.served >= 1) =>
       \A loader \in {dt_loaders[dt_it.loader]} :
         /\ \A indices \in {BatchIndices(loader, dt_it.order, dt_it.served - 1)} :
              dt_batch.features = [j \in 1..Len(dt_batch.features) |-> [img |-> indices[j]]]
         /\ Len(dt_batch.labels) = Len(dt_batch.features)
         /\ \A j \in 1..Len(dt_batch.features) :
              dt_batch.features[j].img = dt_batch.labels[j].target
  /\ (dt_pc = "iterate" /\ dt_it.exhausted) =>
       \A loader \in {dt_loaders[dt_it.loader]} :
         /\ dt_it.served = NumBatches(loader)
         /\ loader.len
              = dt_data[IF dt_it.loader = "train" THEN "training_data"
                        ELSE "test_data"].len
         /\ DeliveredInPass(loader, dt_it.order) = 0..(loader.len - 1)
         /\ \A b \in 0..(dt_it.served - 2) : BatchLen(loader, b) = loader.batch_size
         /\ (dt_it.served - 1) * loader.batch_size + BatchLen(loader, dt_it.served - 1)
              = loader.len

\* A pass over the test set in a shuffled order has ended with its 157th
\* batch.
C12_Witness ==
  /\ dt_pc = "iterate"
  /\ dt_it.exhausted
  /\ dt_it.loader = "test"
  /\ dt_it.served = 157
  /\ dt_it.order.a # 1
  /\ Len(dt_batch.features) = 16

\* C13: no lookup of the sample-visualization loop fails.  In every
\* iteration the drawn sample_idx is at least 0 and less than
\* len(training_data), the label of the drawn sample is a key of labels_map
\* (0..9), and the subplot position i is the number of the iteration, between
\* 1 and rows * cols; the notebook is in an error only when a download has
\* failed, before the loop was entered.
C13_LoopLookupsNeverFail ==
  /\ (dt_pc = "c3_loop" /\ dt_loop.k >= 1) =>
       /\ dt_loop.sample_idx >= 0
       /\ dt_loop.sample_idx < dt_data.training_data.len
       /\ dt_loop.label \in DOMAIN LabelsMap
       /\ dt_loop.label \in 0..9
       /\ dt_loop.i = dt_loop.k
       /\ dt_loop.i >= 1
       /\ dt_loop.i <= VizRows * VizCols
  /\ dt_pc = "error" => (dt_loop.k = 0 /\ dt_download = "failed")

\* The ninth iteration has drawn the last sample of the training set, of the
\* last class.
C13_Witness ==
  /\ dt_pc = "c3_loop"
  /\ dt_loop.k = 9
  /\ dt_loop.i = VizRows * VizCols
  /\ dt_loop.sample_idx = dt_data.training_data.len - 1
  /\ dt_loop.label = 9

(***************************************************************************)
(* Claims about the module metadata files.                                  *)
(***************************************************************************)

\* the characters of a unit name
NameChars ==
  {"a", "b", "c", "d", "e", "f", "g", "h", "i", "j", "k", "l", "m", "n", "o", "p",
   "q", "r", "s", "t", "u", "v", "w", "x", "y", "z", "0", "1", "2", "3", "4", "5",
   "6", "7", "8", "9", "-"}

\* u is uid, a dot and a name, and nothing else
IsUidDotName(uid, u) ==
  /\ Len(u) > Len(uid) + 1
  /\ SubSeq(u, 1, Len(uid) + 1) = uid \o "."
  /\ \A i \in (Len(uid) + 2)..Len(u) : SubSeq(u, i, i) \in NameChars

\* C14 as stated: every entry of the units list of a module file is exactly
\* the module's uid followed by a dot and a unit name, with no other leading
\* or trailing characters.
C14_EveryUnitIsUidDotName ==
  \A k \in 1..Len(ym_units) : IsUidDotName(ym_uid, ym_units[k])

====
